---- MODULE Spec2Model ----
(***************************************************************************)
(* Model of the multi-container drag-and-drop engine of spellclash:        *)
(* src/src/draggables/DragManager.tsx (component DragManager).             *)
(*                                                                         *)
(* The Registry is the React state `itemList` (container id -> ordered     *)
(* list of item ids).  The handlers onDragStart / onDragOver / onDragEnd / *)
(* onDragCancel are the start / over / end / cancel events of the          *)
(* specification.  All identifiers are strings, as in the source           *)
(* (ContainerId = ItemId = string), and share one namespace.               *)
(***************************************************************************)
EXTENDS Integers, Sequences, FiniteSets, TLC

\* ------------------------------------------------------------------ bounds

\* Number of items of the fixed item universe.
NumItems == 3

\* Largest vertical coordinate of the top of the dragged rectangle.
MaxTop == 3

\* Number of items held by the Registry in the specifications with a third
\* container and with collision detection.
NumHeldItems == 2

\* Largest number of handleAction calls that await the server at a time.
MaxPending == 2

\* Largest sortingKey of a card of a game view.
MaxSortingKey == 2

\* ------------------------------------------------------------- identifiers

\* JavaScript null and undefined.
Null == "null"
Undefined == "undefined"

ItemNames == <<"1", "2", "3", "4", "5", "6">>

\* The fixed item universe.
Items == {ItemNames[i] : i \in 1..NumItems}

\* The container ids of the Registry, and Object.keys(itemList) in key order.
Containers == {"A", "B"}

ContainerOrder == <<"A", "B">>

\* The container ids of a Registry with a third container.
ThreeContainerOrder == <<"A", "B", "C">>

\* A draggable the Presentation Adapter renders whose id is in no container
\* of the Registry.
StrayItem == "X"

\* A position key that is not a key of the Registry.
UnknownKey == "Z"

\* over.rect of a drop target: every drop target lies in one horizontal row
\* (DropTargetContainer lays its items out horizontally), so all rectangles
\* have the same top and height.
RectOf(id) == [top |-> 0, height |-> 2]

\* active.rect.current.translated: null (the empty tuple), or a rectangle
\* with this top (a one-element tuple).
NoRect == <<>>

TranslatedRects ==
    {NoRect} \cup {<<t>> : t \in 1..MaxTop}

\* null for a value of type Items | null.
NoItems == <<>>

\* `over` of a drag event: null, or a drop target (a container of the
\* Registry or an item).
OverIds(items) == {Null} \cup (DOMAIN items) \cup Items

\* The value a function returned, or the error it raised.
Returned(value) == [threw |-> FALSE, value |-> value]

Threw == [threw |-> TRUE, value |-> <<>>]

VARIABLES
    itemList,                     \* useState<Items>: the Registry
    activeId,                     \* useState<ItemId | null>
    clonedItems,                  \* useState<Items | null>: origin snapshot
    recentlyMovedToNewContainer,  \* useRef(false): the settling flag
    origin,                       \* history: the Registry at the start of the
                                  \*   gesture in progress, Null when none is
    lastOverId,                   \* useRef<ContainerId | null>(null): the
                                  \*   last matched drop target
    over,                         \* the `over` DndContext holds: the first
                                  \*   collision of its last detection
    lastEvent,                    \* history: the event handled last
    committed,                    \* history: commit callbacks invoked by the
                                  \*   event handled last
    outcome,                      \* history: what the function that ran last
                                  \*   returned, or that it raised an error
    measured,                     \* history: the results of pointerWithin and
                                  \*   rectIntersection for the detection that
                                  \*   ran in the last step
    framePending,                 \* requestAnimationFrame: a callback of the
                                  \*   effect on [itemList] is queued
    gameView,                     \* the `view` prop of PlayArea
    globalState,                  \* useState<GameResponse> of App
    pending,                      \* the handleAction calls awaiting the
                                  \*   server, in the order they were made
    lastCall                      \* history: the handleAction call that
                                  \*   returned in the last step: its
                                  \*   lastResponse, the server's result and the
                                  \*   values passed to the setter

\* The state outside DragManager and its detector.  The events of a drag
\* leave it alone; the specifications of the frame queue, of PlayArea and of
\* the server calls are the ones that change it.
hostVars == <<framePending, gameView, globalState, pending, lastCall>>

vars == <<itemList, activeId, clonedItems, recentlyMovedToNewContainer,
          lastOverId, over, origin, lastEvent, committed, outcome,
          measured, hostVars>>

\* No detection ran in the last step.
NoMeasure == <<>>

\* No game view, no response of the server, no completed call.
NoView == <<>>

NoResponse == <<>>

NoCall ==
    [kind |-> "none", lastResponse |-> NoResponse, data |-> NoResponse,
     set |-> <<>>]

\* The state outside DragManager before App has connected.
HostIdle ==
    /\ framePending = FALSE
    /\ gameView = NoView
    /\ globalState = NoResponse
    /\ pending = <<>>
    /\ lastCall = NoCall

\* ------------------------------------------------- JavaScript array helpers
\* Arrays are sequences; indices below are the source's 0-based indices.

\* Array.prototype.includes
includes(arr, x) == \E i \in 1..Len(arr) : arr[i] = x

\* Array.prototype.indexOf: first 0-based index of x, -1 if absent.
indexOf(arr, x) ==
    IF includes(arr, x)
    THEN (CHOOSE i \in 1..Len(arr) :
             arr[i] = x /\ \A j \in 1..(i - 1) : arr[j] # x) - 1
    ELSE -1

\* Normalisation of a start/end argument of slice and splice.
ClampIndex(i, len) ==
    IF i < 0 THEN (IF len + i < 0 THEN 0 ELSE len + i)
    ELSE IF i > len THEN len ELSE i

\* Array.prototype.slice(start, end)
slice(arr, start, end) ==
    LET s == ClampIndex(start, Len(arr))
        e == ClampIndex(end, Len(arr))
    IN  IF e <= s THEN <<>> ELSE SubSeq(arr, s + 1, e)

\* Array.prototype.filter((item) => item !== x)
filterNot(arr, x) == SelectSeq(arr, LAMBDA item : item # x)

\* arr[i] for a 0-based index: undefined when out of range.
at(arr, i) == IF i >= 0 /\ i < Len(arr) THEN arr[i + 1] ELSE Undefined

\* arrayMove that exchanges the two entries.
arrayMoveSwap(array, from, to) ==
    LET f == ClampIndex(from, Len(array))
        t == ClampIndex(IF to < 0 THEN Len(array) + to ELSE to, Len(array))
    IN  IF f < Len(array) /\ t < Len(array)
        THEN [array EXCEPT ![f + 1] = array[t + 1], ![t + 1] = array[f + 1]]
        ELSE array

\* arrayMove of @dnd-kit/sortable:
\*   const newArray = array.slice();
\*   newArray.splice(to < 0 ? newArray.length + to : to, 0,
\*                   newArray.splice(from, 1)[0]);
\* The insertion index is evaluated before the removal; a `from` outside the
\* array removes nothing and `undefined` is inserted.
arrayMove(array, from, to) ==
    LET len     == Len(array)
        toIdx   == IF to < 0 THEN len + to ELSE to
        f       == ClampIndex(from, len)
        removed == at(array, f)
        rest    == IF f < len
                   THEN SubSeq(array, 1, f) \o SubSeq(array, f + 2, len)
                   ELSE array
        t       == ClampIndex(toIdx, Len(rest))
    IN  SubSeq(rest, 1, t) \o <<removed>> \o SubSeq(rest, t + 1, Len(rest))

\* ------------------------------------------------------------ DragManager

\* `id in items`
IsKey(items, id) == id \in DOMAIN items

\* findContainerId without the search of the containers' members.
findContainerIdKeysOnly(items, id) ==
    IF id \in DOMAIN items THEN id ELSE Undefined

\* Object.keys(items): the keys in insertion order.
keys(items) == SelectSeq(ThreeContainerOrder, LAMBDA k : k \in DOMAIN items)

\* findContainerId: the id itself when it is a container id, else the first
\* container (in key order) whose list includes it, else undefined.
findContainerId(items, id) ==
    IF IsKey(items, id) THEN id
    ELSE LET found == SelectSeq(keys(items),
                                LAMBDA key : includes(items[key], id))
         IN  IF Len(found) > 0 THEN found[1] ELSE Undefined

\* isBelowOverItem with >= for >.
isBelowOverItemInclusive(overId, translated) ==
    /\ overId # Null
    /\ translated # NoRect
    /\ translated[1] >= RectOf(overId).top + RectOf(overId).height

\* isBelowOverItem of onDragOver: over && translated &&
\*   translated.top > over.rect.top + over.rect.height
isBelowOverItem(overId, translated) ==
    /\ overId # Null
    /\ translated # NoRect
    /\ translated[1] > RectOf(overId).top + RectOf(overId).height

\* newIndex that always appends.
newIndexOfAppend(items, overContainer, overId, translated) ==
    Len(items[overContainer]) + 1

\* newIndex of the setItemList updater of onDragOver.
newIndexOf(items, overContainer, overId, translated) ==
    LET overItems == items[overContainer]
        overIndex == indexOf(overItems, overId)
        modifier  == IF isBelowOverItem(overId, translated) THEN 1 ELSE 0
    IN  IF IsKey(items, overId) THEN Len(overItems) + 1
        ELSE IF overIndex >= 0 THEN overIndex + modifier
        ELSE Len(overItems) + 1

\* The updater of onDragOver that drops the key of a source container left
\* without items.
dragOverUpdaterDropsEmpty(items, active, activeContainer, overContainer, overId, translated) ==
    LET activeIndex == indexOf(items[activeContainer], active)
        newIndex    == newIndexOf(items, overContainer, overId, translated)
        moved ==
            [items EXCEPT
                ![activeContainer] = filterNot(items[activeContainer], active),
                ![overContainer] =
                    slice(items[overContainer], 0, newIndex)
                    \o <<at(items[activeContainer], activeIndex)>>
                    \o slice(items[overContainer], newIndex, Len(items[overContainer]))]
    IN  [key \in {k \in DOMAIN moved : k # activeContainer \/ moved[k] # <<>>}
            |-> moved[key]]

\* The updater of onDragOver without the removal from the source container.
dragOverUpdaterKeepSource(items, active, activeContainer, overContainer, overId, translated) ==
    LET activeIndex == indexOf(items[activeContainer], active)
        newIndex    == newIndexOf(items, overContainer, overId, translated)
    IN  [items EXCEPT
            ![overContainer] =
                slice(items[overContainer], 0, newIndex)
                \o <<at(items[activeContainer], activeIndex)>>
                \o slice(items[overContainer], newIndex, Len(items[overContainer]))]

\* The setItemList updater of onDragOver (the cross-container move).
dragOverUpdater(items, active, activeContainer, overContainer, overId, translated) ==
    LET activeItems == items[activeContainer]
        activeIndex == indexOf(activeItems, active)
        newIndex    == newIndexOf(items, overContainer, overId, translated)
    IN  [items EXCEPT
            ![activeContainer] = filterNot(items[activeContainer], active),
            ![overContainer] =
                slice(items[overContainer], 0, newIndex)
                \o <<at(items[activeContainer], activeIndex)>>
                \o slice(items[overContainer], newIndex, Len(items[overContainer]))]

\* The setItemList updater of onDragEnd.
dragEndUpdater(items, overContainer, activeIndex, overIndex) ==
    [items EXCEPT
        ![overContainer] = arrayMove(items[overContainer], activeIndex, overIndex)]

\* onDragOver without the test `active.id in itemList`.
OverResultAnyActive(items, active, overId, translated) ==
    IF overId = Null THEN items
    ELSE LET overContainer   == findContainerId(items, overId)
             activeContainer == findContainerId(items, active)
         IN  IF overContainer = Undefined \/ activeContainer = Undefined
             THEN items
             ELSE IF activeContainer # overContainer
             THEN dragOverUpdater(items, active, activeContainer,
                                  overContainer, overId, translated)
             ELSE items

\* onDragOver that also reorders within the active item's container: the
\* item takes the index of the target.
OverResultReorders(items, active, overId, translated) ==
    IF overId = Null \/ IsKey(items, active) THEN items
    ELSE LET overContainer   == findContainerId(items, overId)
             activeContainer == findContainerId(items, active)
         IN  IF overContainer = Undefined \/ activeContainer = Undefined
             THEN items
             ELSE IF activeContainer # overContainer
             THEN dragOverUpdater(items, active, activeContainer,
                                  overContainer, overId, translated)
             ELSE IF indexOf(items[overContainer], overId) >= 0
             THEN dragEndUpdater(items, overContainer,
                                 indexOf(items[activeContainer], active),
                                 indexOf(items[overContainer], overId))
             ELSE items

\* The Registry onDragOver leaves, from Registry `items` with `active` dragged.
OverResult(items, active, overId, translated) ==
    IF overId = Null \/ IsKey(items, active) THEN items
    ELSE LET overContainer   == findContainerId(items, overId)
             activeContainer == findContainerId(items, active)
         IN  IF overContainer = Undefined \/ activeContainer = Undefined
             THEN items
             ELSE IF activeContainer # overContainer
             THEN dragOverUpdater(items, active, activeContainer,
                                  overContainer, overId, translated)
             ELSE items

\* Whether onDragOver reaches its setItemList call.
OverMoves(items, active, overId, translated) ==
    /\ overId # Null
    /\ ~IsKey(items, active)
    /\ LET overContainer   == findContainerId(items, overId)
           activeContainer == findContainerId(items, active)
       IN  /\ overContainer # Undefined
           /\ activeContainer # Undefined
           /\ activeContainer # overContainer

\* Whether onDragEnd reaches its `if (overContainer)` block.
EndResolves(items, active, overId) ==
    /\ findContainerId(items, active) # Undefined
    /\ overId # Null
    /\ findContainerId(items, overId) # Undefined

\* The Registry onDragEnd leaves.
EndResult(items, active, overId) ==
    IF ~EndResolves(items, active, overId) THEN items
    ELSE LET activeContainer == findContainerId(items, active)
             overContainer   == findContainerId(items, overId)
             activeIndex     == indexOf(items[activeContainer], active)
             overIndex       == indexOf(items[overContainer], overId)
         IN  IF activeIndex # overIndex
             THEN dragEndUpdater(items, overContainer, activeIndex, overIndex)
             ELSE items

\* The commit callback onMoved(itemId, container, index) that PlayArea passes
\* to DragManager: onDragEnd invokes it once when the target resolves, with
\* the item and the (container, index) the item has in the Registry the
\* handler leaves.
onMovedCalls(items, active, overId) ==
    IF EndResolves(items, active, overId)
    THEN LET final     == EndResult(items, active, overId)
             container == findContainerId(final, active)
         IN  <<[item |-> active, container |-> container,
                index |-> indexOf(final[container], active)]>>
    ELSE <<>>

\* No list of the Registry holds an `undefined` entry.
NoUndefined(items) == \A c \in DOMAIN items : ~includes(items[c], Undefined)

\* ------------------------------------------------------------ initial state

\* All sequences that list every element of S exactly once.
Perms(S) ==
    {p \in [1..Cardinality(S) -> S] : \A i, j \in 1..Cardinality(S) :
                                          i # j => p[i] # p[j]}

\* Every Registry with the containers of `order` that cuts one of the item
\* orders `perms` into the containers' lists.
RegistriesOver(order, perms) ==
    LET k == Len(order)
        n == Len(CHOOSE p \in perms : TRUE)
        Cuts == {c \in [0..k -> 0..n] :
                    /\ c[0] = 0
                    /\ c[k] = n
                    /\ \A i \in 1..k : c[i - 1] <= c[i]}
    IN  {[ct \in {order[j] : j \in 1..k} |->
            LET i == CHOOSE j \in 1..k : order[j] = ct
            IN  SubSeq(p, c[i - 1] + 1, c[i])] :
         p \in perms, c \in Cuts}

\* Every Registry that holds each item of the universe exactly once: the
\* `items` prop built by toDraggableItems.
InitialRegistries == RegistriesOver(ContainerOrder, Perms(Items))

\* The value of the history variable lastEvent: the callback that ran, the
\* dragged item (`active`), the target (`id`), the dragged rectangle, and
\* whether the Registry differed from the gesture's origin when it ran.
Event(kind, active, id, translated, changed) ==
    [kind |-> kind, active |-> active, id |-> id,
     translated |-> translated, changed |-> changed]

NoEvent == Event("none", Null, Null, NoRect, FALSE)

Init ==
    /\ itemList \in InitialRegistries
    /\ activeId = Null
    /\ clonedItems = NoItems
    /\ recentlyMovedToNewContainer = FALSE
    /\ lastOverId = Null
    /\ over = Null
    /\ origin = NoItems
    /\ lastEvent = NoEvent
    /\ committed = <<>>
    /\ outcome = Returned(<<>>)
    /\ measured = NoMeasure
    /\ HostIdle

\* ---------------------------------------------------------------- handlers

\* onDragStart that takes a snapshot only when none is held.
onDragStartKeepSnapshot(active) ==
    /\ activeId' = active
    /\ clonedItems' = IF clonedItems = NoItems THEN itemList ELSE clonedItems
    /\ origin' = itemList
    /\ lastEvent' = Event("start", active, Null, NoRect, FALSE)
    /\ measured' = NoMeasure
    /\ committed' = <<>>
    /\ outcome' = Returned(<<>>)
    /\ UNCHANGED <<itemList, recentlyMovedToNewContainer, lastOverId>>

\* onDragStart={({ active }) => { setActiveId(...); setClonedItems(itemList); }}
onDragStart(active) ==
    /\ activeId' = active
    /\ clonedItems' = itemList
    /\ origin' = itemList
    /\ lastEvent' = Event("start", active, Null, NoRect, FALSE)
    /\ measured' = NoMeasure
    /\ committed' = <<>>
    /\ outcome' = Returned(<<>>)
    /\ UNCHANGED <<itemList, recentlyMovedToNewContainer, lastOverId>>

\* onDragOver={({ active, over }) => { ... }}
onDragOver(active, overId, translated) ==
    /\ itemList' = OverResult(itemList, active, overId, translated)
    /\ IF OverMoves(itemList, active, overId, translated)
       THEN recentlyMovedToNewContainer' = TRUE
       ELSE UNCHANGED recentlyMovedToNewContainer
    /\ lastEvent' = Event("over", active, overId, translated, itemList # origin)
    /\ measured' = NoMeasure
    /\ committed' = <<>>
    /\ outcome' = Returned(<<>>)
    /\ UNCHANGED <<activeId, clonedItems, lastOverId, origin>>

\* onDragOver of an earlier render: the handler is a closure over
\* `closure`, the itemList of that render, in which findContainerId and
\* `active.id in itemList` look the ids up, while React hands the updater
\* of setItemList the latest Registry.
onDragOverOf(closure, active, overId, translated) ==
    LET overContainer   == findContainerId(closure, overId)
        activeContainer == findContainerId(closure, active)
        moves == /\ overId # Null
                 /\ ~IsKey(closure, active)
                 /\ overContainer # Undefined
                 /\ activeContainer # Undefined
                 /\ activeContainer # overContainer
    IN  /\ itemList' = IF moves
                       THEN dragOverUpdater(itemList, active, activeContainer,
                                            overContainer, overId, translated)
                       ELSE itemList
        /\ IF moves
           THEN recentlyMovedToNewContainer' = TRUE
           ELSE UNCHANGED recentlyMovedToNewContainer
        /\ lastEvent' = Event("staleOver", active, overId, translated,
                              itemList # origin)
        /\ measured' = NoMeasure
        /\ committed' = <<>>
        /\ outcome' = Returned(<<>>)
        /\ UNCHANGED <<activeId, clonedItems, lastOverId, origin>>

\* onDragEnd that returns without setActiveId(null) when the active item is
\* in no container.
onDragEndKeepsActive(active, overId) ==
    /\ itemList' = EndResult(itemList, active, overId)
    /\ activeId' = IF findContainerId(itemList, active) = Undefined
                   THEN activeId ELSE Null
    /\ origin' = NoItems
    /\ lastEvent' = Event("end", active, overId, NoRect, itemList # origin)
    /\ measured' = NoMeasure
    /\ committed' = onMovedCalls(itemList, active, overId)
    /\ outcome' = Returned(<<>>)
    /\ UNCHANGED <<clonedItems, recentlyMovedToNewContainer, lastOverId>>

\* onDragEnd={({ active, over }) => { ... }}
onDragEnd(active, overId) ==
    /\ itemList' = EndResult(itemList, active, overId)
    /\ activeId' = Null
    /\ origin' = NoItems
    /\ lastEvent' = Event("end", active, overId, NoRect, itemList # origin)
    /\ measured' = NoMeasure
    /\ committed' = onMovedCalls(itemList, active, overId)
    /\ outcome' = Returned(<<>>)
    /\ UNCHANGED <<clonedItems, recentlyMovedToNewContainer, lastOverId>>

\* onDragCancel without its setItemList(clonedItems).
onDragCancelNoRestore ==
    /\ activeId' = Null
    /\ clonedItems' = NoItems
    /\ origin' = NoItems
    /\ lastEvent' = Event("cancel", activeId, Null, NoRect, itemList # origin)
    /\ measured' = NoMeasure
    /\ committed' = <<>>
    /\ outcome' = Returned(<<>>)
    /\ UNCHANGED <<itemList, recentlyMovedToNewContainer, lastOverId>>

\* onDragCancel
onDragCancel ==
    /\ IF clonedItems # NoItems
       THEN itemList' = clonedItems
       ELSE UNCHANGED itemList
    /\ activeId' = Null
    /\ clonedItems' = NoItems
    /\ origin' = NoItems
    /\ lastEvent' = Event("cancel", activeId, Null, NoRect, itemList # origin)
    /\ measured' = NoMeasure
    /\ committed' = <<>>
    /\ outcome' = Returned(<<>>)
    /\ UNCHANGED <<recentlyMovedToNewContainer, lastOverId>>

\* useEffect(() => { requestAnimationFrame(() => {
\*   recentlyMovedToNewContainer.current = false; }); }, [itemList]): a
\* queued animation-frame callback runs.  The flag is set only together with
\* a change of itemList, which queues a callback, so one is pending whenever
\* the flag is set; a callback that finds the flag false changes nothing.
animationFrame ==
    /\ recentlyMovedToNewContainer
    /\ recentlyMovedToNewContainer' = FALSE
    /\ lastEvent' = Event("frame", Null, Null, NoRect, FALSE)
    /\ measured' = NoMeasure
    /\ committed' = <<>>
    /\ outcome' = Returned(<<>>)
    /\ UNCHANGED <<itemList, activeId, clonedItems, lastOverId, origin>>

\* The callback of requestAnimationFrame that resets the flag only while an
\* item is dragged.
animationFrameCallbackWhileDragging ==
    /\ recentlyMovedToNewContainer' =
           (IF activeId # Null THEN FALSE ELSE recentlyMovedToNewContainer)
    /\ lastEvent' = Event("frame", Null, Null, NoRect, FALSE)
    /\ measured' = NoMeasure
    /\ committed' = <<>>
    /\ outcome' = Returned(<<>>)
    /\ UNCHANGED <<itemList, activeId, clonedItems, lastOverId, origin>>

\* requestAnimationFrame(() => { recentlyMovedToNewContainer.current =
\* false; }): the callback itself, whatever the flag is when it runs.
animationFrameCallback ==
    /\ recentlyMovedToNewContainer' = FALSE
    /\ lastEvent' = Event("frame", Null, Null, NoRect, FALSE)
    /\ measured' = NoMeasure
    /\ committed' = <<>>
    /\ outcome' = Returned(<<>>)
    /\ UNCHANGED <<itemList, activeId, clonedItems, lastOverId, origin>>

\* StackCardDisplay without the `?? []` default: the map over undefined
\* raises a TypeError.
cardIdsOfNoDefault(items, positionKey) ==
    IF IsKey(items, positionKey) THEN Returned(items[positionKey]) ELSE Threw

\* const cardIds = items[positionKey] ?? [];  (StackCardDisplay)
cardIdsOf(items, positionKey) ==
    IF IsKey(items, positionKey) THEN Returned(items[positionKey])
    ELSE Returned(<<>>)

\* StackCardDisplay({ positionKey, cardMap }): a render that reads the
\* Registry from ItemsContext.
StackCardDisplay(positionKey) ==
    /\ outcome' = cardIdsOf(itemList, positionKey)
    /\ lastEvent' = Event("read", Null, positionKey, NoRect, FALSE)
    /\ measured' = NoMeasure
    /\ committed' = <<>>
    /\ UNCHANGED <<itemList, activeId, clonedItems,
                   recentlyMovedToNewContainer, lastOverId, origin>>

\* ------------------------------------------------------ collision detection
\* The arguments of the detector are the results of the library's tests on
\* the measured rectangles: pointerIntersections = pointerWithin(args) and
\* rectIntersections = rectIntersection(args), lists of drop target ids, and
\* `ranking`, the drop targets that have a measured rectangle ordered by the
\* distance of their centre (closestCenter of a subset of them is `ranking`
\* restricted to the subset).

\* getFirstCollision(collisions, 'id')
getFirstCollision(collisions) ==
    IF Len(collisions) > 0 THEN collisions[1] ELSE Null

\* closestCenter({...args, droppableContainers}): the given drop targets
\* that have a measured rectangle, nearest centre first.
closestCenter(ranking, droppableContainers) ==
    SelectSeq(ranking, LAMBDA id : id \in droppableContainers)

\* The ids of args.droppableContainers: the drop targets of the Registry.
Droppables(items) ==
    (DOMAIN items) \cup
    {items[c][i] : <<c, i>> \in {<<c, i>> \in (DOMAIN items) \X (1..(NumItems + 1)) :
                                    i <= Len(items[c])}}

\* The result of collisionDetectionStrategy: what it returns or that it
\* raises, and the value it leaves in lastOverId.current.
Detected(result, last) == [outcome |-> result, lastOverId |-> last]

\* collisionDetectionStrategy that takes the rectangle intersections when
\* there are any, and the pointer-within results otherwise.
collisionDetectionStrategyRectFirst(active, items, last, recentlyMoved, pointerIntersections, rectIntersections, ranking) ==
    LET intersections == IF Len(rectIntersections) > 0
                         THEN rectIntersections ELSE pointerIntersections
        first  == getFirstCollision(intersections)
        narrowed ==
            closestCenter(ranking,
                {id \in Droppables(items) :
                    id # first /\ includes(items[first], id)})
        overId == IF IsKey(items, first) /\ Len(items[first]) > 0
                  THEN (IF Len(narrowed) > 0 THEN narrowed[1] ELSE Undefined)
                  ELSE first
        cached == IF recentlyMoved THEN active ELSE last
    IN  IF active # Null /\ IsKey(items, active)
        THEN Detected(Returned(closestCenter(ranking,
                          {id \in Droppables(items) : IsKey(items, id)})), last)
        ELSE IF first # Null
        THEN IF overId = Undefined
             THEN Detected(Threw, last)
             ELSE Detected(Returned(<<overId>>), overId)
        ELSE Detected(Returned(IF cached # Null THEN <<cached>> ELSE <<>>),
                      cached)

\* collisionDetectionStrategy whose first step does not filter the drop
\* targets: a dragged container is matched with the nearest drop target of
\* any kind.
collisionDetectionStrategyAllTargets(active, items, last, recentlyMoved, pointerIntersections, rectIntersections, ranking) ==
    LET intersections == IF Len(pointerIntersections) > 0
                         THEN pointerIntersections ELSE rectIntersections
        first  == getFirstCollision(intersections)
        narrowed ==
            closestCenter(ranking,
                {id \in Droppables(items) :
                    id # first /\ includes(items[first], id)})
        overId == IF IsKey(items, first) /\ Len(items[first]) > 0
                  THEN (IF Len(narrowed) > 0 THEN narrowed[1] ELSE Undefined)
                  ELSE first
        cached == IF recentlyMoved THEN active ELSE last
    IN  IF active # Null /\ IsKey(items, active)
        THEN Detected(Returned(closestCenter(ranking, Droppables(items))), last)
        ELSE IF first # Null
        THEN IF overId = Undefined
             THEN Detected(Threw, last)
             ELSE Detected(Returned(<<overId>>), overId)
        ELSE Detected(Returned(IF cached # Null THEN <<cached>> ELSE <<>>),
                      cached)

\* collisionDetectionStrategy, from the values of activeId, itemList,
\* lastOverId.current and recentlyMovedToNewContainer.current it reads:
\*  - a container is dragged: closestCenter over the containers;
\*  - overId = first of pointerWithin, else of rectIntersection;
\*  - overId is a container with items: overId = closestCenter over its
\*    members [0]?.id, which is undefined when the list is empty;
\*  - lastOverId.current = toContainerId(overId): overId.toString() raises a
\*    TypeError for undefined, before lastOverId.current is assigned;
\*  - no overId: lastOverId.current = activeId when the settling flag is
\*    set; the cached id is returned when it is truthy.
collisionDetectionStrategy(active, items, last, recentlyMoved, pointerIntersections, rectIntersections, ranking) ==
    LET intersections == IF Len(pointerIntersections) > 0
                         THEN pointerIntersections ELSE rectIntersections
        first  == getFirstCollision(intersections)
        narrowed ==
            closestCenter(ranking,
                {id \in Droppables(items) :
                    id # first /\ includes(items[first], id)})
        overId == IF IsKey(items, first) /\ Len(items[first]) > 0
                  THEN (IF Len(narrowed) > 0 THEN narrowed[1] ELSE Undefined)
                  ELSE first
        cached == IF recentlyMoved THEN active ELSE last
    IN  IF active # Null /\ IsKey(items, active)
        THEN Detected(Returned(closestCenter(ranking,
                          {id \in Droppables(items) : IsKey(items, id)})), last)
        ELSE IF first # Null
        THEN IF overId = Undefined
             THEN Detected(Threw, last)
             ELSE Detected(Returned(<<overId>>), overId)
        ELSE Detected(Returned(IF cached # Null THEN <<cached>> ELSE <<>>),
                      cached)

\* DndContext runs the collision detection of the render in effect.
detectCollisions(pointerIntersections, rectIntersections, ranking) ==
    LET d == collisionDetectionStrategy(activeId, itemList, lastOverId,
                 recentlyMovedToNewContainer,
                 pointerIntersections, rectIntersections, ranking)
        intersections == IF Len(pointerIntersections) > 0
                         THEN pointerIntersections ELSE rectIntersections
    IN  /\ outcome' = d.outcome
        /\ lastOverId' = d.lastOverId
        /\ lastEvent' = Event("detect", activeId,
                              getFirstCollision(intersections), NoRect, FALSE)
        /\ measured' = [pointer |-> pointerIntersections,
                         rect |-> rectIntersections]
        /\ committed' = <<>>
        /\ UNCHANGED <<itemList, activeId, clonedItems,
                       recentlyMovedToNewContainer, origin>>

\* ------------------------------------------------- delivery of the events
\* DndContext delivers the events.  The model follows the program up to the
\* first Registry that holds an `undefined` entry (onDragEnd can insert
\* one): no event is explored from such a Registry.

\* A drag of an item begins.
StartEvent ==
    /\ NoUndefined(itemList)
    /\ \E id \in Items : onDragStart(id)
    /\ UNCHANGED <<over, hostVars>>

\* The dragged item is over a new target, or over none.
OverEvent ==
    /\ NoUndefined(itemList)
    /\ activeId # Null
    /\ \E overId \in OverIds(itemList), translated \in TranslatedRects :
           onDragOver(activeId, overId, translated)
    /\ UNCHANGED <<over, hostVars>>

\* The dragged item is dropped.
EndEvent ==
    /\ NoUndefined(itemList)
    /\ activeId # Null
    /\ \E overId \in OverIds(itemList) : onDragEnd(activeId, overId)
    /\ UNCHANGED <<over, hostVars>>

\* The drag is cancelled.
CancelEvent ==
    /\ NoUndefined(itemList)
    /\ onDragCancel
    /\ UNCHANGED <<over, hostVars>>

\* The browser runs a queued animation-frame callback.
FrameEvent ==
    /\ NoUndefined(itemList)
    /\ animationFrame
    /\ UNCHANGED <<over, hostVars>>

Next ==
    \/ StartEvent
    \/ OverEvent
    \/ EndEvent
    \/ CancelEvent
    \/ FrameEvent

Spec == Init /\ [][Next]_vars

\* ------------------------------------------------------ three containers

\* A Registry of three containers that holds the first NumHeldItems items,
\* in the order of their names; the other items of the universe are
\* draggables that are in no container.
InitThree ==
    /\ itemList \in RegistriesOver(ThreeContainerOrder,
                                    {[i \in 1..NumHeldItems |-> ItemNames[i]]})
    /\ activeId = Null
    /\ clonedItems = NoItems
    /\ recentlyMovedToNewContainer = FALSE
    /\ lastOverId = Null
    /\ over = Null
    /\ origin = NoItems
    /\ lastEvent = NoEvent
    /\ committed = <<>>
    /\ outcome = Returned(<<>>)
    /\ measured = NoMeasure
    /\ HostIdle

SpecThree == InitThree /\ [][Next]_vars

\* ------------------------------------------------- with collision detection

\* The items of the Registry: the adapter renders one drop target for each.
Members(items) == Droppables(items) \ DOMAIN items

\* The results pointerWithin and rectIntersection can have: the detector
\* reads only whether the list is empty, and its first entry.
Intersections(items) ==
    {<<>>} \cup {<<id>> : id \in Droppables(items)}

\* The orders by distance of the item drop targets that have a measured
\* rectangle (any subset of the items).
Rankings(items) ==
    UNION {{r \in [1..n -> Members(items)] :
               \A i, j \in 1..n : i # j => r[i] # r[j]} :
           n \in 0..Cardinality(Members(items))}

\* The orders by distance of the drop targets of any kind that have a
\* measured rectangle.
TargetRankings(items) ==
    UNION {{r \in [1..n -> Droppables(items)] :
               \A i, j \in 1..n : i # j => r[i] # r[j]} :
           n \in 0..Cardinality(Droppables(items))}

\* In this specification the `over` of the events is the one DndContext
\* derives from the collision detection it was given (collisionDetection=
\* {collisionDetectionStrategy}): the first collision of the last detection,
\* null when a drag begins or finishes.
InitCollision ==
    /\ itemList \in RegistriesOver(ContainerOrder,
           Perms({ItemNames[i] : i \in 1..NumHeldItems}))
    /\ activeId = Null
    /\ clonedItems = NoItems
    /\ recentlyMovedToNewContainer = FALSE
    /\ lastOverId = Null
    /\ over = Null
    /\ origin = NoItems
    /\ lastEvent = NoEvent
    /\ committed = <<>>
    /\ outcome = Returned(<<>>)
    /\ measured = NoMeasure
    /\ HostIdle

\* A drag of an item begins.
DragStartEvent ==
    /\ NoUndefined(itemList)
    /\ \E id \in Items : onDragStart(id)
    /\ over' = Null
    /\ UNCHANGED hostVars

\* A drag of a container begins: DropTargetContainer registers every
\* container with useSortable, so DndContext knows the containers as
\* draggables too, and the handlers and the detector test whether the
\* active id is a key of the Registry.
ContainerDragStartEvent ==
    /\ NoUndefined(itemList)
    /\ \E id \in DOMAIN itemList : onDragStart(id)
    /\ over' = Null
    /\ UNCHANGED hostVars

\* The pointer moves during a drag: DndContext asks for the collisions.  A
\* detection that raises leaves `over` as it was.  For a dragged container
\* the detector calls closestCenter alone, on the drop targets of any kind.
\* For a dragged item it is given the results of pointerWithin and of
\* rectIntersection, and it calls closestCenter only for a first collision
\* that is a container with items: there the ranking is not varied otherwise,
\* and it lists the items alone, the only targets the detector keeps.
DetectEvent ==
    /\ NoUndefined(itemList)
    /\ activeId # Null
    /\ \E pointerIntersections \in
              (IF IsKey(itemList, activeId)
               THEN {<<>>} ELSE Intersections(itemList)) :
       \E rectIntersections \in
              (IF IsKey(itemList, activeId)
               THEN {<<>>} ELSE Intersections(itemList)) :
       \E ranking \in
              (LET first == getFirstCollision(
                               IF Len(pointerIntersections) > 0
                               THEN pointerIntersections ELSE rectIntersections)
               IN  IF IsKey(itemList, activeId)
                   THEN TargetRankings(itemList)
                   ELSE IF IsKey(itemList, first) /\ Len(itemList[first]) > 0
                   THEN Rankings(itemList) ELSE {<<>>}) :
           /\ detectCollisions(pointerIntersections, rectIntersections, ranking)
           /\ over' = IF outcome'.threw THEN over
                      ELSE getFirstCollision(outcome'.value)
    /\ UNCHANGED hostVars

\* DndContext reports the detected `over` to onDragOver.
DragOverEvent ==
    /\ NoUndefined(itemList)
    /\ activeId # Null
    /\ \E translated \in TranslatedRects : onDragOver(activeId, over, translated)
    /\ UNCHANGED <<over, hostVars>>

\* The dragged item is dropped on the detected `over`.
DragEndEvent ==
    /\ NoUndefined(itemList)
    /\ activeId # Null
    /\ onDragEnd(activeId, over)
    /\ over' = Null
    /\ UNCHANGED hostVars

\* The drag is cancelled.
DragCancelEvent ==
    /\ NoUndefined(itemList)
    /\ onDragCancel
    /\ over' = Null
    /\ UNCHANGED hostVars

NextCollision ==
    \/ DragStartEvent
    \/ DetectEvent
    \/ DragOverEvent
    \/ DragEndEvent
    \/ DragCancelEvent
    \/ FrameEvent

SpecCollision == InitCollision /\ [][NextCollision]_vars

\* The detector alone, with the drag of a container: the Registry holds the
\* first NumHeldItems items in the order of their names, and no event of
\* this specification changes it (the steps of the detector that these
\* detections take do not read the settling flag).
InitDetector ==
    /\ itemList \in RegistriesOver(ContainerOrder,
                                    {[i \in 1..NumHeldItems |-> ItemNames[i]]})
    /\ activeId = Null
    /\ clonedItems = NoItems
    /\ recentlyMovedToNewContainer = FALSE
    /\ lastOverId = Null
    /\ over = Null
    /\ origin = NoItems
    /\ lastEvent = NoEvent
    /\ committed = <<>>
    /\ outcome = Returned(<<>>)
    /\ measured = NoMeasure
    /\ HostIdle

NextDetector ==
    \/ DragStartEvent
    \/ ContainerDragStartEvent
    \/ DetectEvent
    \/ DragCancelEvent

SpecDetector == InitDetector /\ [][NextDetector]_vars

\* ------------------------------------------- a handler of an earlier render
\* DndContext calls the onDragOver it was given by the last render.  When a
\* second over is handled before the render that follows the first move,
\* the handler still is the one of the render before that move.

\* A second over is handled by the handler of the render before the first
\* move of the session: its itemList is the Registry of the start.
StaleOverEvent ==
    /\ NoUndefined(itemList)
    /\ activeId # Null
    /\ origin # NoItems
    /\ lastEvent.kind = "over"
    /\ ~lastEvent.changed
    /\ itemList # origin
    /\ \E overId \in OverIds(itemList), translated \in TranslatedRects :
           onDragOverOf(origin, activeId, overId, translated)
    /\ UNCHANGED <<over, hostVars>>

NextStale ==
    \/ StartEvent
    \/ OverEvent
    \/ EndEvent
    \/ CancelEvent
    \/ FrameEvent
    \/ StaleOverEvent

SpecStale == Init /\ [][NextStale]_vars

\* ------------------------------------------------------- the frame queue
\* The effect of DragManager on [itemList] and the animation frames of the
\* browser.  React renders after an event and runs the effect when itemList
\* has changed; every callback queued before a frame runs in that frame, so
\* one boolean tells whether callbacks are queued.  A setItemList that
\* yields an equal Registry (a cancel after a move there and back) queues a
\* callback too; the settling flag is false then, and the callback changes
\* nothing.

\* React renders after an event: the effect queues a callback when itemList
\* has changed.
Rendered ==
    /\ framePending' = (framePending \/ itemList' # itemList)
    /\ UNCHANGED <<over, gameView, globalState, pending, lastCall>>

\* DragManager is mounted: the effect has run once.
InitFrames ==
    /\ itemList \in RegistriesOver(ContainerOrder,
           Perms({ItemNames[i] : i \in 1..NumHeldItems}))
    /\ activeId = Null
    /\ clonedItems = NoItems
    /\ recentlyMovedToNewContainer = FALSE
    /\ lastOverId = Null
    /\ over = Null
    /\ origin = NoItems
    /\ lastEvent = NoEvent
    /\ committed = <<>>
    /\ outcome = Returned(<<>>)
    /\ measured = NoMeasure
    /\ framePending = TRUE
    /\ gameView = NoView
    /\ globalState = NoResponse
    /\ pending = <<>>
    /\ lastCall = NoCall

RenderedStartEvent ==
    /\ NoUndefined(itemList)
    /\ \E id \in Items : onDragStart(id)
    /\ Rendered

RenderedOverEvent ==
    /\ NoUndefined(itemList)
    /\ activeId # Null
    /\ \E overId \in OverIds(itemList), translated \in TranslatedRects :
           onDragOver(activeId, overId, translated)
    /\ Rendered

RenderedEndEvent ==
    /\ NoUndefined(itemList)
    /\ activeId # Null
    /\ \E overId \in OverIds(itemList) : onDragEnd(activeId, overId)
    /\ Rendered

RenderedCancelEvent ==
    /\ NoUndefined(itemList)
    /\ onDragCancel
    /\ Rendered

\* The browser runs the queued animation-frame callbacks (also with a
\* Registry that holds an `undefined` entry).
QueuedFrameEvent ==
    /\ framePending
    /\ animationFrameCallback
    /\ framePending' = FALSE
    /\ UNCHANGED <<over, gameView, globalState, pending, lastCall>>

NextFrames ==
    \/ RenderedStartEvent
    \/ RenderedOverEvent
    \/ RenderedEndEvent
    \/ RenderedCancelEvent
    \/ QueuedFrameEvent

\* The browser runs a queued callback at its next frame: weak fairness of
\* the frame.
SpecFrames == InitFrames /\ [][NextFrames]_vars /\ WF_vars(QueuedFrameEvent)

\* ------------------------------------------------- a dragged container
\* The events of a drag with the drag of a container, and any drop target
\* as the `over` of an event.

\* A drag of a container begins.
ContainerStartEvent ==
    /\ NoUndefined(itemList)
    /\ \E id \in DOMAIN itemList : onDragStart(id)
    /\ UNCHANGED <<over, hostVars>>

NextContainerDrag ==
    \/ StartEvent
    \/ ContainerStartEvent
    \/ OverEvent
    \/ EndEvent
    \/ CancelEvent
    \/ FrameEvent

SpecContainerDrag == InitCollision /\ [][NextContainerDrag]_vars

\* --------------------------------------------- the Presentation Adapter
\* The adapter renders the draggables and reads the Registry.  A draggable
\* it renders need not be listed in the Registry (DragManager reads its
\* `items` prop only when it is mounted).

\* A drag of a draggable that is in no container begins.
StrayStartEvent ==
    /\ NoUndefined(itemList)
    /\ onDragStart(StrayItem)
    /\ UNCHANGED <<over, hostVars>>

\* A card display is rendered for a position key.
ReadEvent ==
    /\ NoUndefined(itemList)
    /\ \E positionKey \in (DOMAIN itemList) \cup {UnknownKey} :
           StackCardDisplay(positionKey)
    /\ UNCHANGED <<over, hostVars>>

NextAdapter ==
    \/ StartEvent
    \/ OverEvent
    \/ EndEvent
    \/ CancelEvent
    \/ FrameEvent
    \/ StrayStartEvent
    \/ ReadEvent

SpecAdapter == Init /\ [][NextAdapter]_vars

\* ----------------------------------------------------------------- PlayArea
\* PlayArea builds the `items` prop of DragManager from the game view.  A
\* Position is a JavaScript object with one field, here the record of the
\* field's name (tag) and value.

\* const locations: CardOrderLocation[] of orderLocations()
CardOrderLocations == <<"unordered", "topOfLibrary", "bottomOfLibrary", "graveyard">>

\* keyForPosition(position) = JSON.stringify(position): the text of an
\* object with one field is made of the field's name and its value, here
\* the pair of them.
keyForPosition(position) == <<position.tag, position.value>>

\* The Position of a card-order location: { cardOrderLocation: location }.
OrderPosition(location) == [tag |-> "cardOrderLocation", value |-> location]

\* orderLocations().keys()
orderLocationKeys ==
    {keyForPosition(OrderPosition(CardOrderLocations[i])) :
        i \in 1..Len(CardOrderLocations)}

\* array.sort((a, b) => x < y ? -1 : x > y ? 1 : 0) on the sortingKey of the
\* entries: a stable sort, entries with equal keys keep their order.
RECURSIVE sortBySortingKey(_)
sortBySortingKey(array) ==
    IF Len(array) <= 1 THEN array
    ELSE LET rest == sortBySortingKey(SubSeq(array, 1, Len(array) - 1))
             last == array[Len(array)]
             before == SelectSeq(rest, LAMBDA e :
                           e.position.sortingKey <= last.position.sortingKey)
             after  == SelectSeq(rest, LAMBDA e :
                           e.position.sortingKey > last.position.sortingKey)
         IN  before \o <<last>> \o after

\* cardPositions(view).positions: for every position key of a card of the
\* view, the cards at that position, sorted by sortingKey.
cardPositions(view) ==
    [key \in {keyForPosition(view[i].position.position) : i \in 1..Len(view)} |->
        sortBySortingKey(SelectSeq(view, LAMBDA card :
            keyForPosition(card.position.position) = key))]

\* cards.map((card) => card.id)
cardIds(cards) == [i \in 1..Len(cards) |-> cards[i].id]

\* An object after the assignments of `first` and then of `second`: a key
\* assigned twice has the value assigned last.
assigned(first, second) ==
    [key \in (DOMAIN first) \cup (DOMAIN second) |->
        IF key \in DOMAIN second THEN second[key] ELSE first[key]]

\* toDraggableItems that assigns the empty lists of the card-order
\* locations after the lists of the positions.
toDraggableItemsEmptyLast(positions) ==
    assigned([position \in DOMAIN positions |-> cardIds(positions[position])],
             [location \in orderLocationKeys |-> <<>>])

\* toDraggableItems(map): result[location] = [] for every card-order
\* location, then result[position] = the ids of the cards of every position
\* of the map.
toDraggableItems(positions) ==
    assigned([location \in orderLocationKeys |-> <<>>],
             [position \in DOMAIN positions |-> cardIds(positions[position])])

\* The positions of the cards of a view: the card-order locations and the
\* viewer's hand.
ViewPositions ==
    {OrderPosition(CardOrderLocations[i]) : i \in 1..Len(CardOrderLocations)}
    \cup {[tag |-> "hand", value |-> "viewer"]}

\* The cards a view can hold: view.cards[i] with its id and its
\* ObjectPosition (position, sortingKey).
CardViews ==
    [id : {ItemNames[i] : i \in 1..NumHeldItems},
     position : [position : ViewPositions, sortingKey : 0..MaxSortingKey]]

\* The game views: up to NumHeldItems cards with different ids, in any
\* order.
GameViews ==
    UNION {{view \in [1..n -> CardViews] :
               \A i, j \in 1..n : i # j => view[i].id # view[j].id} :
           n \in 0..NumHeldItems}

\* PlayArea is about to be rendered with a game view: DragManager is not
\* mounted yet and there is no Registry.
InitPlayArea ==
    /\ itemList = NoItems
    /\ activeId = Null
    /\ clonedItems = NoItems
    /\ recentlyMovedToNewContainer = FALSE
    /\ lastOverId = Null
    /\ over = Null
    /\ origin = NoItems
    /\ lastEvent = NoEvent
    /\ committed = <<>>
    /\ outcome = Returned(<<>>)
    /\ measured = NoMeasure
    /\ framePending = FALSE
    /\ gameView \in GameViews
    /\ globalState = NoResponse
    /\ pending = <<>>
    /\ lastCall = NoCall

\* PlayArea({ view }) is rendered and DragManager is mounted:
\* useState<Items>(() => items) takes the items prop as the Registry, and
\* the effect on [itemList] runs.
PlayAreaMount ==
    /\ lastEvent.kind = "none"
    /\ itemList' = toDraggableItems(cardPositions(gameView))
    /\ lastEvent' = Event("mount", Null, Null, NoRect, FALSE)
    /\ framePending' = TRUE
    /\ UNCHANGED <<activeId, clonedItems, recentlyMovedToNewContainer,
                   lastOverId, over, origin, committed, outcome, measured,
                   gameView, globalState, pending, lastCall>>

NextPlayArea == PlayAreaMount

SpecPlayArea == InitPlayArea /\ [][NextPlayArea]_vars

\* ------------------------------------------------------------------ server
\* handleAction(setter, lastResponse, action) of server.ts, called by the
\* click handlers with the global state of the render (`response`) as
\* lastResponse and setGlobalState as setter.  The function awaits the
\* server, so several calls can be in flight.

\* The GameResponse values: modal_panel, commands, client_data and
\* opponent_responses.
GameResponses ==
    [modal_panel : {Null, "panel"},
     commands : {<<>>, <<"c1">>, <<"c2">>},
     client_data : {"d1", "d2"},
     opponent_responses : {<<>>}]

\* handleAction that passes the server's data to the setter as it is.
handleActionDataAsReceived(lastResponse, data) == data

\* The value handleAction passes to the setter for an ok result: the data,
\* with the commands of lastResponse when data.commands is empty.
handleActionData(lastResponse, data) ==
    IF Len(data.commands) = 0
    THEN [modal_panel |-> data.modal_panel,
          commands |-> lastResponse.commands,
          client_data |-> data.client_data,
          opponent_responses |-> data.opponent_responses]
    ELSE data

\* App has connected: the global state is the response of connect, and no
\* DragManager is modelled.
InitServer ==
    /\ itemList = NoItems
    /\ activeId = Null
    /\ clonedItems = NoItems
    /\ recentlyMovedToNewContainer = FALSE
    /\ lastOverId = Null
    /\ over = Null
    /\ origin = NoItems
    /\ lastEvent = NoEvent
    /\ committed = <<>>
    /\ outcome = Returned(<<>>)
    /\ measured = NoMeasure
    /\ framePending = FALSE
    /\ gameView = NoView
    /\ globalState \in GameResponses
    /\ pending = <<>>
    /\ lastCall = NoCall

dragVars == <<itemList, activeId, clonedItems, recentlyMovedToNewContainer,
              lastOverId, over, origin, lastEvent, committed, outcome,
              measured, framePending, gameView>>

\* The calls in flight without the i-th, whose promise has settled.
withoutCall(calls, i) == SubSeq(calls, 1, i - 1) \o SubSeq(calls, i + 1, Len(calls))

\* handleAction with action == null: it returns at once.
HandleNullAction ==
    /\ lastCall' = [kind |-> "null", lastResponse |-> globalState,
                    data |-> NoResponse, set |-> <<>>]
    /\ UNCHANGED <<globalState, pending, dragVars>>

\* handleAction with an action: it sends the action with
\* lastResponse.client_data and awaits the result.
HandleActionCall ==
    /\ Len(pending) < MaxPending
    /\ pending' = Append(pending, [lastResponse |-> globalState])
    /\ lastCall' = NoCall
    /\ UNCHANGED <<globalState, dragVars>>

\* The server answers a call with status "ok": setter(data).
HandleActionOk ==
    /\ \E i \in 1..Len(pending), data \in GameResponses :
           /\ pending' = withoutCall(pending, i)
           /\ globalState' = handleActionData(pending[i].lastResponse, data)
           /\ lastCall' = [kind |-> "ok",
                           lastResponse |-> pending[i].lastResponse,
                           data |-> data,
                           set |-> <<handleActionData(pending[i].lastResponse,
                                                      data)>>]
    /\ UNCHANGED dragVars

\* The server answers a call with status "error": the error is logged.
HandleActionError ==
    /\ \E i \in 1..Len(pending) :
           /\ pending' = withoutCall(pending, i)
           /\ lastCall' = [kind |-> "error",
                           lastResponse |-> pending[i].lastResponse,
                           data |-> NoResponse, set |-> <<>>]
    /\ UNCHANGED <<globalState, dragVars>>

NextServer ==
    \/ HandleNullAction
    \/ HandleActionCall
    \/ HandleActionOk
    \/ HandleActionError

SpecServer == InitServer /\ [][NextServer]_vars

\* ------------------------------------------------------- claim vocabulary

\* Number of entries equal to x in all lists of a Registry.
Occurrences(items, x) ==
    Cardinality({<<c, i>> \in (DOMAIN items) \X (1..(NumItems + 1)) :
                    i <= Len(items[c]) /\ items[c][i] = x})

\* Every entry of every list is an item of the universe.
OnlyKnownItems(items) ==
    \A c \in DOMAIN items : \A i \in 1..Len(items[c]) : items[c][i] \in Items

\* The container holding item x (x occurs exactly once), by direct search.
HolderOf(items, x) ==
    CHOOSE c \in DOMAIN items : \E i \in 1..Len(items[c]) : items[c][i] = x

\* The 0-based position of x in list arr (x occurs in it).
PositionIn(arr, x) == (CHOOSE i \in 1..Len(arr) : arr[i] = x) - 1

\* List arr with x inserted so that it gets 0-based position p.
InsertedAt(arr, p, x) ==
    [i \in 1..(Len(arr) + 1) |->
        IF i <= p THEN arr[i] ELSE IF i = p + 1 THEN x ELSE arr[i - 1]]

\* List arr without its entries equal to x.
Without(arr, x) == SelectSeq(arr, LAMBDA e : e # x)

\* ------------------------------------------------------------------ claims

\* C1: in every reachable state every item of the universe appears in
\* exactly one container sequence, exactly once, and no value outside the
\* universe (such as an undefined entry) appears in any sequence.
C1_EveryItemExactlyOnce ==
    /\ \A x \in Items : Occurrences(itemList, x) = 1
    /\ OnlyKnownItems(itemList)

\* C2: a cancel issued while Dragging leaves the Registry equal to the
\* Registry as it was immediately before start, whatever over events moved
\* the item in between.
C2_CancelRestoresOrigin ==
    [][(activeId # Null /\ lastEvent'.kind = "cancel") => itemList' = origin]_vars

\* C2 witness: a drag of an item was cancelled while the Registry differed
\* from the one before start, and the Registry is the one before start again.
C2_Witness ==
    /\ lastEvent.kind = "cancel"
    /\ lastEvent.active = "1"
    /\ lastEvent.changed
    /\ itemList = [A |-> <<"1", "2">>, B |-> <<"3">>]

\* C3: end with no target (over is null) restores the Registry to the
\* Registry as it was before start, as cancel does.
C3_EndWithoutTargetRestores ==
    [][(activeId # Null /\ lastEvent'.kind = "end" /\ lastEvent'.id = Null)
          => itemList' = origin]_vars

C5_EndPlacesItemInTargetContainer ==
    (lastEvent.kind = "end" /\ lastEvent.id # Null /\ OnlyKnownItems(itemList))
        => LET target == IF lastEvent.id \in DOMAIN itemList
                         THEN lastEvent.id
                         ELSE HolderOf(itemList, lastEvent.id)
           IN  HolderOf(itemList, lastEvent.active) = target

\* The dragged rectangle's top lies below the vertical midpoint of the
\* rectangle of target m.
BelowMidpoint(translated, m) ==
    /\ translated # NoRect
    /\ 2 * translated[1] > 2 * RectOf(m).top + RectOf(m).height

\* The dragged rectangle's top lies below the bottom edge of the rectangle
\* of target m.
BelowBottomEdge(translated, m) ==
    /\ translated # NoRect
    /\ translated[1] > RectOf(m).top + RectOf(m).height

\* The step is an over event whose target is item m of a container other
\* than the one holding the dragged item.
OverOtherContainersItem ==
    /\ lastEvent'.kind = "over"
    /\ lastEvent'.id \in Items
    /\ HolderOf(itemList, lastEvent'.id) # HolderOf(itemList, lastEvent'.active)

\* C6: an over whose target is item m at position p of another container,
\* with the pointer not below m, removes the active item from its container
\* and inserts it at position p of m's container; m and the later items
\* shift by one and nothing else changes.
C6_OverInsertsAtTargetPosition ==
    [][(OverOtherContainersItem
        /\ ~BelowBottomEdge(lastEvent'.translated, lastEvent'.id))
       => LET a   == lastEvent'.active
              m   == lastEvent'.id
              src == HolderOf(itemList, a)
              dst == HolderOf(itemList, m)
              p   == PositionIn(itemList[dst], m)
          IN  itemList' = [itemList EXCEPT
                              ![src] = Without(itemList[src], a),
                              ![dst] = InsertedAt(itemList[dst], p, a)]]_vars

\* C6 witness: from {A:[1,2], B:[3]}, start(1) and over(target 3) with the
\* pointer not below 3 gave {A:[2], B:[1,3]}.
C6_Witness ==
    /\ lastEvent.kind = "over"
    /\ lastEvent.active = "1"
    /\ lastEvent.id = "3"
    /\ lastEvent.translated = <<1>>
    /\ ~lastEvent.changed
    /\ clonedItems = [A |-> <<"1", "2">>, B |-> <<"3">>]
    /\ itemList = [A |-> <<"2">>, B |-> <<"1", "3">>]

\* C7: an over whose target is a container with no members, other than the
\* active item's container, moves the active item out of its container and
\* makes it the sole member of the target, at index 0.
C7_OverEmptyContainer ==
    [][(/\ lastEvent'.kind = "over"
        /\ lastEvent'.id \in DOMAIN itemList
        /\ itemList[lastEvent'.id] = <<>>
        /\ HolderOf(itemList, lastEvent'.active) # lastEvent'.id)
       => LET a   == lastEvent'.active
              src == HolderOf(itemList, a)
          IN  itemList' = [itemList EXCEPT
                              ![src] = Without(itemList[src], a),
                              ![lastEvent'.id] = <<a>>]]_vars

\* C7 witness: from {A:[1,2,3], B:[]}, start(1) and over(B) gave
\* {A:[2,3], B:[1]}.
C7_Witness ==
    /\ lastEvent.kind = "over"
    /\ lastEvent.active = "1"
    /\ lastEvent.id = "B"
    /\ ~lastEvent.changed
    /\ clonedItems = [A |-> <<"1", "2", "3">>, B |-> <<>>]
    /\ itemList = [A |-> <<"2", "3">>, B |-> <<"1">>]

\* C8 as claimed: in a cross-container over whose target is item m at
\* position p, the insertion index is p + 1 exactly when the pointer lies
\* below m's vertical midpoint, and p otherwise.
C8_IndexByMidpoint ==
    [][OverOtherContainersItem
       => LET a   == lastEvent'.active
              m   == lastEvent'.id
              dst == HolderOf(itemList, m)
              p   == PositionIn(itemList[dst], m)
          IN  /\ HolderOf(itemList', a) = dst
              /\ PositionIn(itemList'[dst], a) =
                    IF BelowMidpoint(lastEvent'.translated, m) THEN p + 1 ELSE p]_vars

\* C8 as amended: the insertion index is p + 1 exactly when the dragged
\* item has a translated rectangle whose top lies strictly below the bottom
\* edge (top + height) of m's rectangle, and p otherwise.
C8_IndexByBottomEdge ==
    [][OverOtherContainersItem
       => LET a   == lastEvent'.active
              m   == lastEvent'.id
              dst == HolderOf(itemList, m)
              p   == PositionIn(itemList[dst], m)
          IN  /\ HolderOf(itemList', a) = dst
              /\ PositionIn(itemList'[dst], a) =
                    IF BelowBottomEdge(lastEvent'.translated, m) THEN p + 1 ELSE p]_vars

\* C8 witness: from {A:[1,2], B:[3]}, start(1) and over(target 3) with the
\* dragged rectangle below the bottom edge of 3 gave {A:[2], B:[3,1]}.
C8_Witness ==
    /\ lastEvent.kind = "over"
    /\ lastEvent.active = "1"
    /\ lastEvent.id = "3"
    /\ lastEvent.translated = <<3>>
    /\ ~lastEvent.changed
    /\ clonedItems = [A |-> <<"1", "2">>, B |-> <<"3">>]
    /\ itemList = [A |-> <<"2">>, B |-> <<"3", "1">>]

\* C9: after an over event, a second over event with the same target and
\* the same pointer position leaves the Registry exactly as the first left
\* it.
C9_OverIdempotent ==
    lastEvent.kind = "over"
        => OverResult(itemList, lastEvent.active, lastEvent.id,
                      lastEvent.translated) = itemList

\* C9 witness: an over event has just moved the dragged item to another
\* container.
C9_Witness ==
    /\ lastEvent.kind = "over"
    /\ lastEvent.active = "2"
    /\ lastEvent.id = "3"
    /\ ~lastEvent.changed
    /\ itemList # clonedItems
    /\ recentlyMovedToNewContainer

\* C10: an end whose target is an item at another index of the active
\* item's container relocates the active item to the target's index; the
\* other items keep their relative order, the size is unchanged and no
\* other container changes.
C10_EndReordersWithinContainer ==
    [][(/\ lastEvent'.kind = "end"
        /\ lastEvent'.id \in Items
        /\ lastEvent'.id # lastEvent'.active
        /\ HolderOf(itemList, lastEvent'.id) = HolderOf(itemList, lastEvent'.active))
       => LET a == lastEvent'.active
              c == HolderOf(itemList, a)
              q == PositionIn(itemList[c], lastEvent'.id)
          IN  itemList' = [itemList EXCEPT
                              ![c] = InsertedAt(Without(itemList[c], a), q, a)]]_vars

\* C10 witness: from A:[1,2,3], start(2) and end(target 1, index 0) gave
\* A:[2,1,3].
C10_Witness ==
    /\ lastEvent.kind = "end"
    /\ lastEvent.active = "2"
    /\ lastEvent.id = "1"
    /\ ~lastEvent.changed
    /\ clonedItems = [A |-> <<"1", "2", "3">>, B |-> <<>>]
    /\ itemList = [A |-> <<"2", "1", "3">>, B |-> <<>>]

\* C11: a start issued while a session is already Dragging is rejected: it
\* leaves the session's active item and its origin snapshot unchanged.
C11_StartRejectedWhileDragging ==
    [][(activeId # Null /\ lastEvent'.kind = "start")
          => (activeId' = activeId /\ clonedItems' = clonedItems)]_vars

\* C12: a cancel delivered when no session is in progress (after end, with
\* no new start in between) leaves the Registry unchanged.
C12_CancelAfterEndKeepsRegistry ==
    [][(activeId = Null /\ lastEvent'.kind = "cancel")
          => itemList' = itemList]_vars

\* The item is in no container of the Registry.
InNoContainer(items, x) ==
    \A c \in DOMAIN items : \A i \in 1..Len(items[c]) : items[c][i] # x

\* C13: the currently-dragged-item signal activeId is non-null exactly while
\* a session is in progress: after a start it is the started item, and after
\* every end (with a target, without one, or with the active item in no
\* container) and every cancel it is null.
C13_ActiveIdTracksSession ==
    /\ lastEvent.kind = "start" => activeId = lastEvent.active
    /\ lastEvent.kind \in {"end", "cancel"} => activeId = Null
    /\ (activeId # Null) <=> (origin # NoItems)

\* C13 witness: an end with a target was handled for an active item that is
\* in no container, and no item is dragged any more.
C13_Witness ==
    /\ lastEvent.kind = "end"
    /\ lastEvent.active = StrayItem
    /\ lastEvent.id = "B"
    /\ InNoContainer(itemList, StrayItem)
    /\ activeId = Null

\* C14: an over or end handled while the active item is in no container
\* aborts the session as cancel does: the Registry is the origin snapshot
\* and no session is in progress afterwards.
C14_MissingItemAbortsSession ==
    [][(/\ activeId # Null
        /\ lastEvent'.kind \in {"over", "end"}
        /\ InNoContainer(itemList, lastEvent'.active))
       => (itemList' = origin /\ activeId' = Null)]_vars

\* C15: an over that requests a move (it has a target) for an item that is
\* in no container raises an error to its caller and leaves the Registry
\* unchanged.
C15_UnknownItemMoveRejected ==
    [][(/\ lastEvent'.kind = "over"
        /\ lastEvent'.id # Null
        /\ InNoContainer(itemList, lastEvent'.active))
       => (outcome'.threw /\ itemList' = itemList)]_vars

\* C16: start leaves the Registry unchanged and takes a snapshot equal to
\* the Registry at that instant; an over never changes the snapshot; the
\* snapshot held when a cancel arrives during a session is the Registry of
\* the session's start.
C16_SnapshotIsRegistryAtStart ==
    [][/\ lastEvent'.kind = "start"
          => (itemList' = itemList /\ clonedItems' = itemList)
       /\ lastEvent'.kind = "over" => clonedItems' = clonedItems
       /\ (lastEvent'.kind = "cancel" /\ activeId # Null)
          => clonedItems = origin]_vars

\* C16 witness: a session was started from a Registry other than the one an
\* earlier session had started from, and two over events have since moved
\* the item; the snapshot is still the Registry of this session's start.
C16_Witness ==
    /\ lastEvent.kind = "over"
    /\ lastEvent.active = "1"
    /\ lastEvent.changed
    /\ activeId = "1"
    /\ clonedItems = [A |-> <<"2">>, B |-> <<"1", "3">>]
    /\ itemList = [A |-> <<"2", "1">>, B |-> <<"3">>]

\* The step is an over event whose target (a container or an item) lies in
\* a container other than the one holding the dragged item.
OverOtherContainer ==
    /\ lastEvent'.kind = "over"
    /\ lastEvent'.id # Null
    /\ ~InNoContainer(itemList, lastEvent'.active)
    /\ \/ lastEvent'.id \in DOMAIN itemList
       \/ ~InNoContainer(itemList, lastEvent'.id)
    /\ (IF lastEvent'.id \in DOMAIN itemList THEN lastEvent'.id
        ELSE HolderOf(itemList, lastEvent'.id))
          # HolderOf(itemList, lastEvent'.active)

C18_UnknownContainerReadsEmpty ==
    (lastEvent.kind = "read" /\ lastEvent.id \notin DOMAIN itemList)
        => outcome = Returned(<<>>)

\* C18 witness: a card display was rendered for a key that is not in a
\* Registry whose containers both hold items.
C18_Witness ==
    /\ lastEvent.kind = "read"
    /\ lastEvent.id = UnknownKey
    /\ UnknownKey \notin DOMAIN itemList
    /\ itemList["A"] # <<>>
    /\ itemList["B"] # <<>>
    /\ ~outcome.threw

\* C19: when the first candidate of a detection is a container that has
\* member items, the detector returns the id of one of that container's
\* members: never the container's own id, never an undefined id and never
\* an error, also when no member has a measured rectangle.
C19_ContainerNarrowedToMember ==
    (/\ lastEvent.kind = "detect"
     /\ lastEvent.id \in DOMAIN itemList
     /\ itemList[lastEvent.id] # <<>>)
        => /\ ~outcome.threw
           /\ Len(outcome.value) = 1
           /\ outcome.value[1] # lastEvent.id
           /\ outcome.value[1] # Undefined
           /\ \E i \in 1..Len(itemList[lastEvent.id]) :
                  itemList[lastEvent.id][i] = outcome.value[1]

\* C20: a detection without candidate returns the active item's id when
\* the settling flag is set, else the cached match when there is one, else
\* nothing; a detection with a candidate returns one id and leaves that id
\* in the cache.
C20_NoCandidateUsesCache ==
    [][lastEvent'.kind = "detect"
       => IF lastEvent'.id = Null
          THEN outcome' = Returned(IF recentlyMovedToNewContainer
                                   THEN <<activeId>>
                                   ELSE IF lastOverId # Null
                                        THEN <<lastOverId>> ELSE <<>>)
          ELSE /\ ~outcome'.threw
               /\ Len(outcome'.value) = 1
               /\ lastOverId' = outcome'.value[1]]_vars

\* C21: the last-matched cache belongs to the session: the first collision
\* query after a start that finds no candidate (and is not answered by the
\* settling flag) returns no target, never one cached before the start.
C21_CacheClearedBetweenSessions ==
    [][(/\ lastEvent.kind = "start"
        /\ lastEvent'.kind = "detect"
        /\ lastEvent'.id = Null
        /\ ~recentlyMovedToNewContainer)
       => outcome' = Returned(<<>>)]_vars

\* C22: when the active id is a key of the Registry (a container is
\* dragged), the detector returns container ids only (or nothing), never an
\* item id and never an error, and it neither returns nor changes the
\* last-matched cache.
C22_ContainerDragMatchesContainers ==
    [][(lastEvent'.kind = "detect" /\ IsKey(itemList, activeId))
       => /\ ~outcome'.threw
          /\ \A i \in 1..Len(outcome'.value) :
                 outcome'.value[i] \in DOMAIN itemList
          /\ lastOverId' = lastOverId]_vars

\* C22 witness: container A is dragged while the cache holds an item id
\* from an earlier drag of an item, and the detection returned container B
\* alone.
C22_Witness ==
    /\ lastEvent.kind = "detect"
    /\ lastEvent.active = "A"
    /\ activeId = "A"
    /\ lastOverId = "1"
    /\ itemList["B"] # <<>>
    /\ outcome = Returned(<<"B">>)

\* The detection that ran last answered with candidate `first`: with the id
\* itself, or, when it is a container that has members, with one of its
\* members (or the error of C19).
AnsweredFor(first) ==
    IF first \in DOMAIN itemList /\ itemList[first] # <<>>
    THEN \/ outcome.threw
         \/ /\ Len(outcome.value) = 1
            /\ \E i \in 1..Len(itemList[first]) :
                   itemList[first][i] = outcome.value[1]
    ELSE outcome = Returned(<<first>>)

\* C23: for a dragged item the candidates are the pointer-within results
\* whenever there is at least one, whatever the rectangle intersections
\* are; the rectangle intersections are the candidates only when no drop
\* target contains the pointer.
C23_PointerWithinBeforeRectangles ==
    (lastEvent.kind = "detect" /\ lastEvent.active \notin DOMAIN itemList)
        => /\ measured.pointer # <<>> => AnsweredFor(measured.pointer[1])
           /\ (measured.pointer = <<>> /\ measured.rect # <<>>)
                  => AnsweredFor(measured.rect[1])

\* C23 witness: item 2 is dragged, the pointer is within item 1 while the
\* dragged rectangle intersects the other container first, and the detector
\* answered with item 1.
C23_Witness ==
    /\ lastEvent.kind = "detect"
    /\ lastEvent.active = "2"
    /\ itemList = [A |-> <<"1">>, B |-> <<"2">>]
    /\ measured = [pointer |-> <<"1">>, rect |-> <<"B">>]
    /\ outcome = Returned(<<"1">>)

\* C24: an over whose target (a container or an item) lies in the container
\* that holds the active item at that moment, after any earlier move of the
\* session, leaves the Registry and the settling flag unchanged.
C24_OverSameContainerKeepsRegistry ==
    [][(/\ lastEvent'.kind = "over"
        /\ lastEvent'.id # Null
        /\ ~InNoContainer(itemList, lastEvent'.active)
        /\ \/ lastEvent'.id \in DOMAIN itemList
           \/ ~InNoContainer(itemList, lastEvent'.id)
        /\ (IF lastEvent'.id \in DOMAIN itemList THEN lastEvent'.id
            ELSE HolderOf(itemList, lastEvent'.id))
              = HolderOf(itemList, lastEvent'.active))
       => /\ itemList' = itemList
          /\ recentlyMovedToNewContainer' = recentlyMovedToNewContainer]_vars

\* C24 witness: item 1 was moved from A to B by an earlier over of the
\* session; a later over on item 3 of B, now the container of item 1, left
\* the Registry as it was.
C24_Witness ==
    /\ lastEvent.kind = "over"
    /\ lastEvent.active = "1"
    /\ lastEvent.id = "3"
    /\ lastEvent.changed
    /\ activeId = "1"
    /\ clonedItems = [A |-> <<"1", "2">>, B |-> <<"3">>]
    /\ itemList = [A |-> <<"2">>, B |-> <<"1", "3">>]

\* C25: the settling flag becomes true only in an over that moves the
\* dragged item to another container, and whenever it is true it is
\* eventually false again: the frame after the change of the Registry
\* resets it, also when the session has ended or was cancelled meanwhile.
C25_SettlingFlagIsReset ==
    /\ [][(~recentlyMovedToNewContainer /\ recentlyMovedToNewContainer')
          => /\ lastEvent'.kind = "over"
             /\ ~InNoContainer(itemList, lastEvent'.active)
             /\ HolderOf(itemList', lastEvent'.active)
                    # HolderOf(itemList, lastEvent'.active)]_vars
    /\ (recentlyMovedToNewContainer ~> ~recentlyMovedToNewContainer)

\* C25 witness: a session was cancelled while the settling flag was set; no
\* item is dragged, the flag is still set and the frame callback is queued.
C25_Witness ==
    /\ lastEvent.kind = "cancel"
    /\ lastEvent.changed
    /\ activeId = Null
    /\ recentlyMovedToNewContainer
    /\ framePending

\* C26: after a second over handled with the container lookup of the
\* Registry as it was before the first over's move, the Registry still
\* holds every item exactly once and no value outside the item universe.
C26_StaleLookupKeepsItems ==
    lastEvent.kind = "staleOver"
        => /\ \A x \in Items : Occurrences(itemList, x) = 1
           /\ OnlyKnownItems(itemList)

\* C27: while the active id is a key of the Registry (a container is
\* dragged), an over with any target leaves the Registry unchanged, and so
\* does an end whose target is a container id.
C27_ContainerDragKeepsRegistry ==
    [][/\ (lastEvent'.kind = "over" /\ lastEvent'.active \in DOMAIN itemList)
          => itemList' = itemList
       /\ (/\ lastEvent'.kind = "end"
           /\ lastEvent'.active \in DOMAIN itemList
           /\ lastEvent'.id \in DOMAIN itemList)
          => itemList' = itemList]_vars

\* C27 witness: container A, dragged from a Registry in which both
\* containers hold an item, was dropped on container B, and the Registry is
\* the one of the start.
C27_Witness ==
    /\ lastEvent.kind = "end"
    /\ lastEvent.active = "A"
    /\ lastEvent.id = "B"
    /\ activeId = Null
    /\ clonedItems = [A |-> <<"1">>, B |-> <<"2">>]
    /\ itemList = [A |-> <<"1">>, B |-> <<"2">>]

\* C28: the set of container ids (the keys of the Registry) is the same in
\* every reachable state: no event adds or removes a container, and a
\* container that has lost its last item is still a key, with an empty list.
C28_ContainersAreFixed ==
    /\ DOMAIN itemList = Containers
    /\ clonedItems # NoItems => DOMAIN clonedItems = Containers

\* C28 witness: an over moved the only item of container A to B; A is still
\* a container, with an empty list.
C28_Witness ==
    /\ lastEvent.kind = "over"
    /\ lastEvent.active = "1"
    /\ clonedItems = [A |-> <<"1">>, B |-> <<"2", "3">>]
    /\ "A" \in DOMAIN itemList
    /\ itemList["A"] = <<>>
    /\ Len(itemList["B"]) = 3

\* The card of the game view with this id.
CardOfView(id) ==
    gameView[CHOOSE i \in 1..Len(gameView) : gameView[i].id = id]

C30_HandleActionKeepsCommands ==
    [][/\ (lastCall'.kind = "ok" /\ lastCall'.data.commands = <<>>)
          => /\ Len(lastCall'.set) = 1
             /\ lastCall'.set[1] = globalState'
             /\ globalState'.commands = lastCall'.lastResponse.commands
             /\ globalState'.client_data = lastCall'.data.client_data
             /\ globalState'.modal_panel = lastCall'.data.modal_panel
             /\ globalState'.opponent_responses
                    = lastCall'.data.opponent_responses
       /\ lastCall'.kind \in {"error", "null"}
          => /\ lastCall'.set = <<>>
             /\ globalState' = globalState]_vars

\* C30 witness: a call made with a lastResponse of commands c1 and client
\* data d1 was answered ok with no commands and client data d2; the global
\* state has the commands c1 and the client data d2.
C30_Witness ==
    /\ lastCall.kind = "ok"
    /\ lastCall.data.commands = <<>>
    /\ lastCall.data.client_data = "d2"
    /\ lastCall.lastResponse.commands = <<"c1">>
    /\ lastCall.lastResponse.client_data = "d1"
    /\ globalState.commands = <<"c1">>
    /\ globalState.client_data = "d2"

====
